---- MODULE Spec2Model ----
(***************************************************************************)
(* Fixed-point Gaussian evaluator of move-gaussian (Python reference):     *)
(* signed-magnitude addition, Horner evaluation, the rational evaluator    *)
(* and the FixedPointErf forward router (erf / erfc / phi), followed by    *)
(* the sampling helpers (uniform_open_interval, ppf, apply_mean_std) and   *)
(* the two seed-to-z references, the bundle loader, the u256 overflow      *)
(* analysis, the test-vector checksums, the coefficient scaling helpers    *)
(* and the pipeline runner run_all.py.                                     *)
(*                                                                         *)
(* Python integers are unbounded, so no width is modelled.  The scale WAD  *)
(* is 10^18 in the source; the model runs the same integer arithmetic at a *)
(* small scale so that every value stays inside TLC's integers.            *)
(***************************************************************************)
EXTENDS Integers, Sequences, FiniteSets

\* ---------------------------------------------------------------- bounds
\* the fixed-point scale of the model (10^18 in 04_horner_python.py:27)
WAD == 4
\* largest magnitude handed to signed_add directly
MaxMag == 3
\* largest coefficient magnitude of a generated coefficient list
MaxCoef == 1
\* longest generated coefficient list
MaxLen == 2
\* largest non-negative input x / x_wad
MaxX == 8
\* most negative input is -MaxNeg
MaxNeg == 1
\* fitted upper bounds domain[1] of the generated bundles, in half units
MinHi2 == 2
MaxHi2 == 3
\* the probability scale of the sampling layer is PWAD = 100 * PScale
\* (10^18 = 100 * 10^16 in utils.py:14), fine enough to tell EPS_WAD,
\* P_LOW and P_HIGH apart
PScale == 1
\* width of a raw seed word (64 in utils.py:101)
SeedBits == 8
\* the checksums are followed on their low HashBits bits (128 in utils.py:27)
HashBits == 8
\* longest test vector and largest vector element
MaxVec == 2
MaxVal == 3
\* a float coefficient c is the exact fraction n / (SubUnits * WAD) with
\* |n| <= MaxFine, so c * WAD = n / SubUnits falls between the integers
SubUnits == 4
MaxFine == 5

VARIABLES
    table,    \* the loaded coefficient bundle of the FixedPointErf object, or NoTable
    op,       \* name of the last function called ("none" before the first call)
    x_in,     \* its integer argument (x or x_wad)
    a_in,     \* signed_add: first operand <<mag, neg>>
    b_in,     \* signed_add: second operand <<mag, neg>>
    num,      \* horner / rational: numerator coefficient lists [mags, signs]
    den,      \* rational: denominator coefficient lists [mags, signs]
    ret       \* outcome of the call: value returned or exception raised

vars == <<table, op, x_in, a_in, b_in, num, den, ret>>

\* ------------------------------------------------------------- outcomes
\* A call returns a (magnitude, sign) tuple, returns an int, or raises.
\* accs: the accumulator after every Horner step of the call (horner only);
\* hx: the arguments horner_eval_signed was invoked with during the call;
\* via: the coefficient set an evaluator result was computed from.
NoPair == <<0, FALSE>>
NoRet ==
    [kind |-> "none", exc |-> "", int |-> 0, pair |-> NoPair,
     accs |-> <<>>, hx |-> <<>>, via |-> ""]
RetPair(p, accs, hx) == [NoRet EXCEPT !.kind = "pair", !.pair = p, !.accs = accs, !.hx = hx]
RetInt(n, hx, via) == [NoRet EXCEPT !.kind = "int", !.int = n, !.hx = hx, !.via = via]
Raised(e, hx) == [NoRet EXCEPT !.kind = "raise", !.exc = e, !.hx = hx]

\* signed value of a (magnitude, is_negative) pair
value(p) == IF p[2] THEN 0 - p[1] ELSE p[1]
\* the canonical-zero invariant of the data model
canonical(p) == (p[1] = 0) => (p[2] = FALSE)

\* ------------------------------------------------------------ signed_add
signed_add_keeps_b(a_mag, a_neg, b_mag, b_neg) ==
    IF a_neg = b_neg THEN <<a_mag + b_mag, a_neg>>
    ELSE IF a_mag >= b_mag THEN <<a_mag - b_mag, b_neg>>
    ELSE <<b_mag - a_mag, b_neg>>

signed_add(a_mag, a_neg, b_mag, b_neg) ==
    IF a_neg = b_neg
    THEN <<a_mag + b_mag, a_neg>>
    ELSE IF a_mag >= b_mag
         THEN <<a_mag - b_mag, a_neg>>
         ELSE <<b_mag - a_mag, b_neg>>

\* ---------------------------------------------------- horner_eval_signed
\* one iteration of the loop: scale the accumulator by x, add coefficient i
horner_step_no_scale(acc, x, c_mag, c_neg) ==
    signed_add(acc[1] * x, acc[2], c_mag, c_neg)

horner_step(acc, x, c_mag, c_neg) ==
    signed_add((acc[1] * x) \div WAD, acc[2], c_mag, c_neg)

\* the loop "for i in range(len(magnitudes) - 2, -1, -1)", lists 1-indexed:
\* accs collects the accumulator on entry and after every iteration
RECURSIVE horner_loop_stops_early(_, _, _, _, _)
horner_loop_stops_early(x, magnitudes, signs, i, accs) ==
    IF i < 2 THEN accs
    ELSE horner_loop_stops_early(x, magnitudes, signs, i - 1,
            Append(accs, horner_step(accs[Len(accs)], x, magnitudes[i], signs[i])))

RECURSIVE horner_loop(_, _, _, _, _)
horner_loop(x, magnitudes, signs, i, accs) ==
    IF i < 1 THEN accs
    ELSE horner_loop(x, magnitudes, signs, i - 1,
            Append(accs, horner_step(accs[Len(accs)], x, magnitudes[i], signs[i])))

horner_eval_signed(x, magnitudes, signs) ==
    IF x < 0 THEN Raised("AssertionError", <<x>>)
    ELSE LET n == Len(magnitudes)
             accs == horner_loop(x, magnitudes, signs, n - 1,
                                 << <<magnitudes[n], signs[n]>> >>)
         IN RetPair(accs[Len(accs)], accs, <<x>>)

\* -------------------------------------------------- rational_eval_signed
rational_divide_first(p_mag, q_mag) == (p_mag \div q_mag) * WAD

rational_quotient(p_mag, q_mag) == (p_mag * WAD) \div q_mag

rational_eval_pole_zero(x, p_mags, p_signs, q_mags, q_signs) ==
    LET p == horner_eval_signed(x, p_mags, p_signs)
        q == horner_eval_signed(x, q_mags, q_signs)
    IN IF p.kind = "raise" THEN p
       ELSE IF q.kind = "raise" THEN Raised(q.exc, <<x, x>>)
       ELSE IF q.pair[1] = 0 THEN RetPair(<<0, FALSE>>, <<>>, <<x, x>>)
       ELSE RetPair(<<rational_quotient(p.pair[1], q.pair[1]), p.pair[2] # q.pair[2]>>,
                    <<>>, <<x, x>>)

rational_eval_signed(x, p_mags, p_signs, q_mags, q_signs) ==
    LET p == horner_eval_signed(x, p_mags, p_signs)
        q == horner_eval_signed(x, q_mags, q_signs)
    IN IF p.kind = "raise" THEN p
       ELSE IF q.kind = "raise" THEN Raised(q.exc, <<x, x>>)
       ELSE IF q.pair[1] = 0 THEN Raised("ValueError", <<x, x>>)
       ELSE RetPair(<<rational_quotient(p.pair[1], q.pair[1]), p.pair[2] # q.pair[2]>>,
                    <<>>, <<x, x>>)

\* --------------------------------------------------------------- inputs
Pairs(m) == (0..m) \X BOOLEAN
Coefs == {c \in Pairs(MaxCoef) : canonical(c)}
RECURSIVE CoefLists(_)
CoefLists(n) ==
    IF n = 0 THEN {<<>>}
    ELSE {Append(s, c) : s \in CoefLists(n - 1), c \in Coefs}
\* coefficient lists of length 1..MaxLen, split into magnitudes and signs
split(cs) == [mags |-> [i \in 1..Len(cs) |-> cs[i][1]],
              signs |-> [i \in 1..Len(cs) |-> cs[i][2]]]
Polys == UNION {{split(cs) : cs \in CoefLists(n)} : n \in 1..MaxLen}
NoPoly == [mags |-> <<>>, signs |-> <<>>]
NoTable == [loaded |-> FALSE]

\* ------------------------------------------- the arithmetic specification
\* The module-level functions are pure: the initial state holds a pending
\* call with its arguments, the action runs it and stores the outcome.
Inputs == (0 - MaxNeg)..MaxX

InitArith ==
    /\ table = NoTable
    /\ ret = NoRet
    /\ \/ /\ op = "signed_add"
          /\ a_in \in Pairs(MaxMag)
          /\ b_in \in Pairs(MaxMag)
          /\ x_in = 0
          /\ num = NoPoly
          /\ den = NoPoly
       \/ /\ op = "horner_eval_signed"
          /\ x_in \in Inputs
          /\ num \in Polys
          /\ den = NoPoly
          /\ a_in = NoPair
          /\ b_in = NoPair
       \/ /\ op = "rational_eval_signed"
          /\ x_in \in Inputs
          /\ num \in Polys
          /\ den \in Polys
          /\ a_in = NoPair
          /\ b_in = NoPair

CallSignedAdd ==
    /\ op = "signed_add"
    /\ ret.kind = "none"
    /\ ret' = RetPair(signed_add(a_in[1], a_in[2], b_in[1], b_in[2]), <<>>, <<>>)
    /\ UNCHANGED <<table, op, x_in, a_in, b_in, num, den>>

CallHorner ==
    /\ op = "horner_eval_signed"
    /\ ret.kind = "none"
    /\ ret' = horner_eval_signed(x_in, num.mags, num.signs)
    /\ UNCHANGED <<table, op, x_in, a_in, b_in, num, den>>

CallRational ==
    /\ op = "rational_eval_signed"
    /\ ret.kind = "none"
    /\ ret' = rational_eval_signed(x_in, num.mags, num.signs, den.mags, den.signs)
    /\ UNCHANGED <<table, op, x_in, a_in, b_in, num, den>>

NextArith == CallSignedAdd \/ CallHorner \/ CallRational

SpecArith == InitArith /\ [][NextArith]_vars

\* ------------------------------------------------------- FixedPointErf
\* An optional bundle entry (data.get('erfc'), data.get('phi')): None or the
\* four coefficient arrays of a dedicated approximation.
None == [present |-> FALSE, p_magnitudes |-> <<>>, p_signs |-> <<>>,
         q_magnitudes |-> <<>>, q_signs |-> <<>>]
Entry(p, q) == [present |-> TRUE, p_magnitudes |-> p.mags, p_signs |-> p.signs,
                q_magnitudes |-> q.mags, q_signs |-> q.signs]

\* __init__: the attributes read from the 'erf' entry plus the two optional
\* entries.  domain is kept in half units, so domain[1] = hi2 / 2.
FixedPointErf(p, q, hi2, erfc_entry, phi_entry) ==
    [loaded |-> TRUE,
     p_mags |-> p.mags, p_signs |-> p.signs,
     q_mags |-> q.mags, q_signs |-> q.signs,
     scale |-> WAD, domain |-> <<0, hi2>>,
     erfc_data |-> erfc_entry, phi_data |-> phi_entry]

\* int(self.domain[1] * WAD): the product truncated to an integer
max_x_of(self) == (self.domain[2] * WAD) \div 2

Min(m, n) == IF m <= n THEN m ELSE n

\* "if result_neg: return 0; return min(result_mag, WAD)"
clamp_no_upper(result_mag, result_neg) == IF result_neg THEN 0 ELSE result_mag

clamp(result_mag, result_neg) == IF result_neg THEN 0 ELSE Min(result_mag, WAD)

\* "assert x_wad >= 0"
erf_accepts_any(x_wad) == TRUE

erf_accepts(x_wad) == x_wad >= 0

\* "if x_wad > max_x: return WAD"
erf_saturates_at_bound(x_wad, max_x) == x_wad >= max_x

erf_saturates(x_wad, max_x) == x_wad > max_x

erf(self, x_wad) ==
    IF ~erf_accepts(x_wad) THEN Raised("AssertionError", <<>>)
    ELSE IF erf_saturates(x_wad, max_x_of(self)) THEN RetInt(WAD, <<>>, "saturation")
    ELSE LET r == rational_eval_signed(x_wad, self.p_mags, self.p_signs,
                                       self.q_mags, self.q_signs)
         IN IF r.kind = "raise" THEN r
            ELSE RetInt(clamp(r.pair[1], r.pair[2]), r.hx, "erf")

\* "if self.erfc_data is None" / "if self.phi_data is None"
always_fallback(data) == TRUE

uses_fallback(data) == ~data.present

\* the dedicated-coefficient branch shared by erfc and phi
eval_dedicated(data, x_wad, name) ==
    LET r == rational_eval_signed(x_wad, data.p_magnitudes, data.p_signs,
                                  data.q_magnitudes, data.q_signs)
    IN IF r.kind = "raise" THEN r
       ELSE RetInt(clamp(r.pair[1], r.pair[2]), r.hx, name)

erfc(self, x_wad) ==
    IF uses_fallback(self.erfc_data)
    THEN LET e == erf(self, x_wad)
         IN IF e.kind = "raise" THEN e ELSE RetInt(WAD - e.int, e.hx, e.via)
    ELSE eval_dedicated(self.erfc_data, x_wad, "erfc")

\* the literal 1414213562373095048 is floor(sqrt(2) * WAD)
SQRT2_WAD == CHOOSE r \in 0..(2 * WAD) : r * r <= 2 * WAD * WAD /\ 2 * WAD * WAD < (r + 1) * (r + 1)

\* "x_scaled = (x_wad * WAD) // SQRT2_WAD", the input the fallback hands to erf
x_scaled_of(x_wad) == (x_wad * WAD) \div SQRT2_WAD

phi(self, x_wad) ==
    IF uses_fallback(self.phi_data)
    THEN LET x_scaled == x_scaled_of(x_wad)
             e == erf(self, x_scaled)
         IN IF e.kind = "raise" THEN e ELSE RetInt((WAD + e.int) \div 2, e.hx, e.via)
    ELSE eval_dedicated(self.phi_data, x_wad, "phi")

\* ------------------------------------------------ evaluator specification
\* The bundles an evaluator is constructed from: every approximation pairs
\* two of the coefficient lists below; the optional entries may be absent.
\* (the constant 2 and 1 - x, whose value is 0 for WAD <= x < 2 * WAD)
TablePolys ==
    {[mags |-> <<2>>, signs |-> <<FALSE>>],
     [mags |-> <<1, 1>>, signs |-> <<FALSE, TRUE>>]}
Approxs == {Entry(p, q) : p \in TablePolys, q \in TablePolys}
Tables ==
    {FixedPointErf(p, q, hi2, c, f) :
        p \in TablePolys, q \in TablePolys, hi2 \in MinHi2..MaxHi2,
        c \in {None} \cup Approxs, f \in {None} \cup Approxs}

Init ==
    /\ table \in Tables
    /\ op = "none"
    /\ x_in = 0
    /\ a_in = NoPair
    /\ b_in = NoPair
    /\ num = NoPoly
    /\ den = NoPoly
    /\ ret = NoRet

CallErfStateful ==
    \E x \in Inputs :
        /\ op' = "erf"
        /\ x_in' = x
        /\ ret' = erf(table, x)
        /\ table' = [table EXCEPT !.domain = <<0, x>>]
        /\ UNCHANGED <<a_in, b_in, num, den>>

CallErf ==
    \E x \in Inputs :
        /\ op' = "erf"
        /\ x_in' = x
        /\ ret' = erf(table, x)
        /\ UNCHANGED <<table, a_in, b_in, num, den>>

CallErfc ==
    \E x \in Inputs :
        /\ op' = "erfc"
        /\ x_in' = x
        /\ ret' = erfc(table, x)
        /\ UNCHANGED <<table, a_in, b_in, num, den>>

CallPhi ==
    \E x \in Inputs :
        /\ op' = "phi"
        /\ x_in' = x
        /\ ret' = phi(table, x)
        /\ UNCHANGED <<table, a_in, b_in, num, den>>

Next == CallErf \/ CallErfc \/ CallPhi

Spec == Init /\ [][Next]_vars

\* ------------------------------------------------------ arithmetic claims
SignedAddDone == op = "signed_add" /\ ret.kind = "pair"
HornerDone == op = "horner_eval_signed" /\ ret.kind = "pair"
RationalDone == op = "rational_eval_signed" /\ ret.kind # "none"

\* C1: signed_add returns a pair whose signed value is value(a) + value(b):
\* equal signs give (a_mag + b_mag, a_neg), different signs give the larger
\* magnitude minus the smaller with the sign of the operand of larger
\* magnitude; the returned magnitude is never negative.
C1_SignedAddValue ==
    SignedAddDone =>
        /\ value(ret.pair) = value(a_in) + value(b_in)
        /\ ret.pair[1] >= 0
        /\ (a_in[2] = b_in[2]) => ret.pair = <<a_in[1] + b_in[1], a_in[2]>>
        /\ (a_in[2] # b_in[2] /\ a_in[1] > b_in[1]) =>
                ret.pair = <<a_in[1] - b_in[1], a_in[2]>>
        /\ (a_in[2] # b_in[2] /\ b_in[1] > a_in[1]) =>
                ret.pair = <<b_in[1] - a_in[1], b_in[2]>>
        /\ (a_in[2] # b_in[2] /\ a_in[1] = b_in[1]) => ret.pair[1] = 0

\* a positive operand plus a larger negative one: the result takes b's sign
C1_Witness ==
    /\ SignedAddDone
    /\ a_in = <<1, FALSE>>
    /\ b_in = <<3, TRUE>>
    /\ ret.pair = <<2, TRUE>>

\* C2: signed_add of two operands with equal magnitudes and opposite signs
\* returns canonical zero (0, False), whichever operand is the negative one.
\* (Stated for canonical operands, so the magnitudes are positive.)
C2_OppositeGivesCanonicalZero ==
    (/\ SignedAddDone
     /\ canonical(a_in) /\ canonical(b_in)
     /\ a_in[1] = b_in[1] /\ a_in[2] # b_in[2]) => ret.pair = <<0, FALSE>>

\* C3: for x >= 0 and a coefficient list of canonical entries, every
\* accumulator of horner_eval_signed and its final result is canonical
\* (magnitude 0 implies sign False).
C3_HornerCanonical ==
    (HornerDone /\ \A i \in 1..Len(num.mags) : canonical(<<num.mags[i], num.signs[i]>>)) =>
        /\ canonical(ret.pair)
        /\ \A i \in 1..Len(ret.accs) : canonical(ret.accs[i])

\* C4: for x >= 0 with a non-zero denominator magnitude, rational_eval_signed
\* returns magnitude floor(p_mag * WAD / q_mag) (scale multiplied in before
\* the division) with sign p_neg XOR q_neg, unclamped.
C4_RationalQuotient ==
    (RationalDone /\ x_in >= 0) =>
        LET p == horner_eval_signed(x_in, num.mags, num.signs).pair
            q == horner_eval_signed(x_in, den.mags, den.signs).pair
        IN (q[1] # 0) =>
            /\ ret.kind = "pair"
            /\ ret.pair[1] * q[1] <= p[1] * WAD
            /\ p[1] * WAD < (ret.pair[1] + 1) * q[1]
            /\ ret.pair[2] = (p[2] # q[2])

\* a negative quotient whose magnitude exceeds the scale is returned as is
C4_Witness ==
    /\ RationalDone
    /\ ret.kind = "pair"
    /\ ret.pair[1] > WAD
    /\ ret.pair[2] = TRUE

\* ------------------------------------------------------- evaluator claims
\* magnitude of the denominator of a coefficient set at x (x >= 0)
q_mag_at(q_mags, q_signs, x) == horner_eval_signed(x, q_mags, q_signs).pair[1]
\* erf reaches its rational approximation at x and finds a pole there
ErfPoleAt(x) ==
    /\ 0 <= x
    /\ x <= (table.domain[2] * WAD) \div 2
    /\ q_mag_at(table.q_mags, table.q_signs, x) = 0
DedicatedPoleAt(data, x) ==
    /\ 0 <= x
    /\ data.present
    /\ q_mag_at(data.q_magnitudes, data.q_signs, x) = 0
PoleError == ret.kind = "raise" /\ ret.exc = "ValueError"

\* C5: whenever the denominator evaluated by a call of erf, erfc or phi has
\* magnitude 0, the call raises the pole error of rational_eval_signed and
\* returns no value, for the dedicated coefficients and the erf fallback.
C5_PolePropagates ==
    /\ (op = "erf" /\ ErfPoleAt(x_in)) => PoleError
    /\ (op = "erfc" /\ DedicatedPoleAt(table.erfc_data, x_in)) => PoleError
    /\ (op = "erfc" /\ ~table.erfc_data.present /\ ErfPoleAt(x_in)) => PoleError
    /\ (op = "phi" /\ DedicatedPoleAt(table.phi_data, x_in)) => PoleError
    /\ (op = "phi" /\ ~table.phi_data.present /\ ErfPoleAt(x_scaled_of(x_in))) => PoleError

\* the pole of the erf coefficients surfaces through the erfc fallback
C5_Witness ==
    /\ op = "erfc"
    /\ ~table.erfc_data.present
    /\ ErfPoleAt(x_in)
    /\ PoleError

\* the rational result a call clamps, when it evaluates its own coefficients
OwnRational ==
    IF op = "erf"
    THEN rational_eval_signed(x_in, table.p_mags, table.p_signs, table.q_mags, table.q_signs)
    ELSE LET d == IF op = "erfc" THEN table.erfc_data ELSE table.phi_data
         IN rational_eval_signed(x_in, d.p_magnitudes, d.p_signs, d.q_magnitudes, d.q_signs)
EvaluatesOwn ==
    \/ op = "erf" /\ x_in <= (table.domain[2] * WAD) \div 2
    \/ op = "erfc" /\ table.erfc_data.present
    \/ op = "phi" /\ table.phi_data.present

C7_ErfSaturation ==
    (op = "erf" /\ x_in >= 0) =>
        /\ (x_in > (table.domain[2] * WAD) \div 2) =>
              (ret.kind = "int" /\ ret.int = WAD /\ ret.hx = <<>>)
        /\ (x_in <= (table.domain[2] * WAD) \div 2) => ret.hx = <<x_in, x_in>>

\* beyond the bound erf returns WAD even where the denominator has a root
C7_Witness ==
    /\ op = "erf"
    /\ x_in > (table.domain[2] * WAD) \div 2
    /\ q_mag_at(table.q_mags, table.q_signs, x_in) = 0
    /\ ret.kind = "int"
    /\ ret.int = WAD

\* C8: for x_wad beyond the fitted bound erfc returns 0 and phi returns WAD,
\* from dedicated coefficients and from the erf-based fallback alike.
\* (Stated for the calls that return: a call that raises returns neither.)
C8_ErfcPhiSaturate ==
    (x_in > (table.domain[2] * WAD) \div 2 /\ ret.kind = "int") =>
        /\ (op = "erfc") => ret.int = 0
        /\ (op = "phi") => ret.int = WAD

\* C9 as stated: erf accepts negative input and returns -erf(|x|).
C9_ErfOddOnNegatives ==
    (op = "erf" /\ x_in < 0) =>
        LET e == erf(table, 0 - x_in)
        IN e.kind = "int" => (ret.kind = "int" /\ ret.int = 0 - e.int)

\* C9: erf rejects negative input: for x_wad < 0 the assertion fails before
\* anything is evaluated and no value is returned (the odd extension is the
\* caller's); no call of erf hands a negative argument to the Horner routine.
C9_ErfRejectsNegatives ==
    (op = "erf") =>
        /\ (x_in < 0) => (ret.kind = "raise" /\ ret.exc = "AssertionError" /\ ret.hx = <<>>)
        /\ \A i \in 1..Len(ret.hx) : ret.hx[i] >= 0

\* a negative argument ends in the assertion error
C9_Witness ==
    /\ op = "erf"
    /\ x_in < 0
    /\ ret.kind = "raise"
    /\ ret.exc = "AssertionError"

\* the evaluators that differ from self in the erf coefficients only
ErfVariants(self) ==
    {[self EXCEPT !.p_mags = p.mags, !.p_signs = p.signs,
                  !.q_mags = q.mags, !.q_signs = q.signs] :
        p \in TablePolys, q \in TablePolys}

\* C10 as stated: erfc never depends on the erf coefficients and is never
\* obtained from erf.
C10_ErfcIndependentOfErf ==
    (op = "erfc" /\ x_in >= 0) =>
        /\ ret.via \notin {"erf", "saturation"}
        /\ \A other \in ErfVariants(table) : erfc(other, x_in) = ret

\* C10: with an erfc entry in the bundle, erfc is computed from the erfc
\* coefficients only and does not change with the erf coefficients; without
\* one it is WAD - erf(x), failing where erf fails.
C10_ErfcDedicatedOrFallback ==
    (op = "erfc" /\ x_in >= 0) =>
        IF table.erfc_data.present
        THEN /\ ret.kind = "int" => ret.via = "erfc"
             /\ \A other \in ErfVariants(table) : erfc(other, x_in) = ret
        ELSE LET e == erf(table, x_in)
             IN /\ e.kind = "raise" => ret = e
                /\ e.kind = "int" => (ret.kind = "int" /\ ret.int = WAD - e.int)

\* a dedicated erfc result that is not the complement of erf at the same x
C10_Witness ==
    /\ op = "erfc"
    /\ x_in >= 0
    /\ table.erfc_data.present
    /\ ret.kind = "int"
    /\ erf(table, x_in).kind = "int"
    /\ ret.int # WAD - erf(table, x_in).int

\* --------------------------------------------- evaluation at the origin
\* The CDF table of verification/sturm_certificate.py: P_COEFFS starts with
\* p0 = SCALE / 2 and Q_COEFFS with q0 = SCALE (both positive); the higher
\* coefficients are drawn from the generated coefficient lists.
CdfPoly(c0, tail) ==
    LET t == split(tail)
    IN [mags |-> <<c0>> \o t.mags, signs |-> <<FALSE>> \o t.signs]
CdfTails == UNION {CoefLists(n) : n \in 0..(MaxLen - 1)}
P_COEFFS(tail) == CdfPoly(WAD \div 2, tail)
Q_COEFFS(tail) == CdfPoly(WAD, tail)
CdfTables ==
    {FixedPointErf(P_COEFFS(<<>>), Q_COEFFS(<<>>), MinHi2, None,
                   Entry(P_COEFFS(pt), Q_COEFFS(qt))) :
        pt \in CdfTails, qt \in CdfTails}

\* a pending call of phi on an evaluator loaded with the CDF table
InitCdf ==
    /\ table \in CdfTables
    /\ op = "phi"
    /\ x_in \in Inputs
    /\ a_in = NoPair
    /\ b_in = NoPair
    /\ num = NoPoly
    /\ den = NoPoly
    /\ ret = NoRet

RunPhi ==
    /\ op = "phi"
    /\ ret.kind = "none"
    /\ ret' = phi(table, x_in)
    /\ UNCHANGED <<table, op, x_in, a_in, b_in, num, den>>

InitOrigin == InitArith \/ InitCdf

NextOrigin == CallSignedAdd \/ CallHorner \/ CallRational \/ RunPhi

SpecOrigin == InitOrigin /\ [][NextOrigin]_vars

\* C12: at x = 0 horner_eval_signed yields magnitude c[0], so the rational
\* value is floor(p0 * WAD / q0); with the CDF table (p0 = WAD / 2, q0 = WAD)
\* cdf(0) is exactly WAD / 2.
C12_ValueAtOrigin ==
    (x_in = 0) =>
        /\ HornerDone => ret.pair[1] = num.mags[1]
        /\ (RationalDone /\ den.mags[1] # 0) =>
              /\ ret.kind = "pair"
              /\ ret.pair[1] * den.mags[1] <= num.mags[1] * WAD
              /\ num.mags[1] * WAD < (ret.pair[1] + 1) * den.mags[1]
        /\ (op = "phi" /\ ret.kind # "none") => (ret.kind = "int" /\ ret.int = WAD \div 2)

\* cdf(0) computed from a CDF table with non-constant numerator and denominator
C12_Witness ==
    /\ op = "phi"
    /\ x_in = 0
    /\ Len(table.phi_data.p_magnitudes) > 1
    /\ Len(table.phi_data.q_magnitudes) > 1
    /\ ret.kind = "int"
    /\ ret.int = WAD \div 2

\* ------------------------------------------------------- sampling layer
\* utils.py at the probability scale PWAD.  The model's EPS is 1/100, so
\* that EPS_WAD < P_LOW < P_HIGH < PWAD - EPS_WAD as in the source.
PWAD == 100 * PScale
EPS_WAD == PWAD \div 100
P_LOW == (2 * PWAD) \div 100
P_HIGH == (98 * PWAD) \div 100
Seeds == 0..(2^SeedBits - 1)
Max(a, b) == IF a > b THEN a ELSE b

\* u & ((1 << 64) - 1)
mask_low_bits(u) == u % (2^(SeedBits - 1))
mask_u64(u) == u % (2^SeedBits)

uniform_no_offset(u) ==
    LET span == PWAD - 2 * EPS_WAD
        u_masked == mask_u64(u)
    IN (u_masked * span) \div (2^SeedBits)

uniform_open_interval(u) ==
    LET span == PWAD - 2 * EPS_WAD
        u_masked == mask_u64(u)
        frac == (u_masked * span) \div (2^SeedBits)
    IN frac + EPS_WAD

\* The inverse normal CDF is transcendental: a returned quantile is kept as
\* the term "inverse CDF at probability `at`, negated or not", tagged with
\* the routine (region) that evaluates it.
Quantile(at, negated, region) ==
    [NoRet EXCEPT !.kind = "quantile", !.int = at, !.pair = <<0, negated>>, !.via = region]

\* ppf of 10_cross_language_vectors.py: p = min(max(p, EPS), 1.0 - EPS)
ppf(p) == Quantile(Min(Max(p, EPS_WAD), PWAD - EPS_WAD), FALSE, "ppf")

\* the piecewise dispatch of 01b_aaa_ppf.py (test_full_domain)
reflect_identity(p) == p
reflect(p) == PWAD - p

ppf_dispatch(p) ==
    IF p < P_LOW THEN Quantile(p, FALSE, "tail")
    ELSE IF p > P_HIGH THEN
        LET p_sym == reflect(p)
        IN IF p_sym < P_LOW THEN Quantile(p_sym, TRUE, "tail")
           ELSE Quantile(p_sym, TRUE, "central")
    ELSE Quantile(p, FALSE, "central")

apply_mean_std_unsigned(z, mean_wad, std_wad) ==
    LET delta == (std_wad * z[1]) \div WAD
    IN signed_add(mean_wad, FALSE, delta, FALSE)

apply_mean_std(z, mean_wad, std_wad) ==
    LET z_mag == z[1]
        z_neg == z[2]
        delta == (std_wad * z_mag) \div WAD
    IN signed_add(mean_wad, FALSE, delta, z_neg)

\* seed -> z of build_sampling_vectors and test_sampling_smoke
sample_z_inverse_cdf(seed) == ppf(uniform_open_interval(seed))

\* bitwise exclusive or of two naturals
RECURSIVE xor(_, _)
xor(a, b) ==
    IF a = 0 THEN b
    ELSE IF b = 0 THEN a
    ELSE ((a + b) % 2) + 2 * xor(a \div 2, b \div 2)

\* (state << k) & MASK and state >> k on a SeedBits-wide word
shl(state, k) == IF k >= SeedBits THEN 0 ELSE (state % (2^(SeedBits - k))) * (2^k)
shr(state, k) == state \div (2^k)
xorshift64(state) ==
    LET s1 == xor(state, shl(state, 13))
        s2 == xor(s1, shr(s1, 7) % (2^SeedBits))
    IN xor(s2, shl(s2, 17))

\* the loop of python_sample_z_from_seed: n more uniforms, running sum
RECURSIVE clt_sum(_, _, _)
clt_sum(state, n, total) ==
    IF n = 0 THEN total
    ELSE LET next == xorshift64(state)
             u == (next % (PWAD - 2)) + 1
         IN clt_sum(next, n - 1, total + u)

python_sample_z_as_inverse_cdf(seed) == sample_z_inverse_cdf(seed)

\* verify_deployment.py: z = sum(uniforms) - 6.0, kept at the scale PWAD
python_sample_z_from_seed(seed) ==
    LET state == IF seed # 0 THEN seed ELSE 1
    IN RetInt(clt_sum(state, 12, 0) - 6 * PWAD, <<>>, "clt")

\* ---------------------------------------------- the sampling specification
\* Pending calls of the pure sampling helpers, run once each.
InitSample ==
    /\ table = NoTable
    /\ ret = NoRet
    /\ num = NoPoly
    /\ den = NoPoly
    /\ \/ /\ op = "uniform_open_interval"
          /\ x_in \in Seeds
          /\ a_in = NoPair
          /\ b_in = NoPair
       \/ /\ op = "ppf"
          /\ x_in \in 0..PWAD
          /\ a_in = NoPair
          /\ b_in = NoPair
       \/ /\ op = "ppf_dispatch"
          /\ x_in \in EPS_WAD..(PWAD - EPS_WAD)
          /\ a_in = NoPair
          /\ b_in = NoPair
       \/ /\ op = "apply_mean_std"
          /\ a_in \in Pairs(MaxX)
          /\ b_in \in (0..MaxMag) \X {FALSE}
          /\ x_in \in 0..MaxX
       \/ /\ op \in {"build_sampling_vectors", "python_sample_z_from_seed"}
          /\ x_in \in Seeds
          /\ a_in = NoPair
          /\ b_in = NoPair

Returns(r) ==
    /\ ret.kind = "none"
    /\ ret' = r
    /\ UNCHANGED <<table, op, x_in, a_in, b_in, num, den>>

CallUniform == op = "uniform_open_interval" /\ Returns(RetInt(uniform_open_interval(x_in), <<>>, ""))
CallPpf == op = "ppf" /\ Returns(ppf(x_in))
CallDispatch == op = "ppf_dispatch" /\ Returns(ppf_dispatch(x_in))
CallApplyMeanStd ==
    op = "apply_mean_std" /\ Returns(RetPair(apply_mean_std(a_in, b_in[1], x_in), <<>>, <<>>))
CallVectorSample == op = "build_sampling_vectors" /\ Returns(sample_z_inverse_cdf(x_in))
CallReplicaSample == op = "python_sample_z_from_seed" /\ Returns(python_sample_z_from_seed(x_in))

NextSample ==
    \/ CallUniform
    \/ CallPpf
    \/ CallDispatch
    \/ CallApplyMeanStd
    \/ CallVectorSample
    \/ CallReplicaSample

SpecSample == InitSample /\ [][NextSample]_vars

\* ------------------------------------------------ claims of the sampling layer
UniformDone == op = "uniform_open_interval" /\ ret.kind = "int"
ApplyDone == op = "apply_mean_std" /\ ret.kind = "pair"

\* C13: ppf treats a probability that is exactly 0 or exactly the scale as a
\* domain error and returns no value for it; every other p is clamped to
\* [EPS_WAD, PWAD - EPS_WAD], so no endpoint is silently coerced.
C13_PpfRejectsEndpoints ==
    (op = "ppf" /\ ret.kind # "none") =>
        IF x_in \in {0, PWAD} THEN ret.kind = "raise"
        ELSE /\ ret.kind = "quantile"
             /\ EPS_WAD <= ret.int
             /\ ret.int <= PWAD - EPS_WAD

\* C14: for a clamped p > P_HIGH the dispatch evaluates the inverse at
\* p' = PWAD - p and negates; p' is not in the upper tail and satisfies
\* EPS_WAD <= p' < P_LOW, so the reflected evaluation is the lower-tail
\* routine and nothing is reflected a second time.
C14_UpperTailReflectsOnce ==
    (op = "ppf_dispatch" /\ ret.kind # "none" /\ x_in > P_HIGH) =>
        /\ ret.kind = "quantile"
        /\ ret.pair[2] = TRUE
        /\ ret.int = PWAD - x_in
        /\ ret.int <= P_HIGH
        /\ EPS_WAD <= ret.int
        /\ ret.int < P_LOW
        /\ ret.via = "tail"

\* the largest clamped probability is reflected onto the smallest one
C14_Witness ==
    /\ op = "ppf_dispatch"
    /\ x_in = PWAD - EPS_WAD
    /\ ret.kind = "quantile"
    /\ ret.int = EPS_WAD
    /\ ret.pair[2] = TRUE

\* C15: for every seed, uniform_open_interval(u) lies strictly inside the
\* open interval: EPS_WAD < p < PWAD - EPS_WAD.
C15_UniformStrictlyInside ==
    UniformDone => (EPS_WAD < ret.int /\ ret.int < PWAD - EPS_WAD)

\* C16: for every seed, EPS_WAD <= uniform_open_interval(u) <= PWAD - EPS_WAD,
\* and the image of the smallest seed is strictly below the image of the
\* largest seed.
C16_UniformClosedBounds ==
    UniformDone =>
        /\ EPS_WAD <= ret.int
        /\ ret.int <= PWAD - EPS_WAD
        /\ (x_in = 2^SeedBits - 1) => (uniform_open_interval(0) < ret.int)

\* the largest seed, mapped to the top of the range
C16_Witness ==
    /\ UniformDone
    /\ x_in = 2^SeedBits - 1
    /\ ret.int >= P_HIGH

\* C17: uniform_open_interval is monotone non-decreasing in the seed:
\* u1 <= u2 implies uniform_open_interval(u1) <= uniform_open_interval(u2).
C17_UniformMonotone ==
    UniformDone =>
        \A u2 \in Seeds : (x_in <= u2) => (ret.int <= uniform_open_interval(u2))

\* a seed at which the image steps up by one unit
C17_Witness ==
    /\ UniformDone
    /\ x_in > 0
    /\ ret.int = uniform_open_interval(x_in - 1) + 1

\* C18: apply_mean_std returns the signed value mean + sgn(z) * d with
\* d = floor(std_wad * z_mag / WAD), truncated on the magnitude before the
\* sign is applied; the result is negative exactly when z is negative and
\* d > mean_wad.
C18_ApplyMeanStdValue ==
    ApplyDone =>
        \A d \in 0..(x_in * a_in[1]) :
            (d * WAD <= x_in * a_in[1] /\ x_in * a_in[1] < (d + 1) * WAD) =>
                /\ value(ret.pair) = b_in[1] + (IF a_in[2] THEN 0 - d ELSE d)
                /\ ret.pair[2] = (a_in[2] /\ d > b_in[1])

\* a negative z whose truncated product exceeds the mean
C18_Witness ==
    /\ ApplyDone
    /\ a_in[2] = TRUE
    /\ (x_in * a_in[1]) % WAD # 0
    /\ ret.pair[2] = TRUE
    /\ ret.pair[1] > 0

SessionTables == {t \in Tables : t.domain[2] = MinHi2 /\ ~t.phi_data.present}
SessionSeeds == {u \in Seeds : u % (2^(SeedBits - 2)) = 0} \cup {2^SeedBits - 1}

InitSession ==
    /\ table \in SessionTables
    /\ op = "none"
    /\ x_in = 0
    /\ a_in = NoPair
    /\ b_in = NoPair
    /\ num = NoPoly
    /\ den = NoPoly
    /\ ret = NoRet

SessionUniform ==
    \E u \in SessionSeeds :
        /\ op' = "uniform_open_interval"
        /\ x_in' = u
        /\ ret' = RetInt(uniform_open_interval(u), <<>>, "")
        /\ UNCHANGED <<table, a_in, b_in, num, den>>

SessionApplyMeanStd ==
    \E z \in Pairs(MaxNeg), mean_wad \in 0..MaxNeg, std_wad \in {WAD, WAD + 1} :
        /\ op' = "apply_mean_std"
        /\ a_in' = z
        /\ b_in' = <<mean_wad, FALSE>>
        /\ x_in' = std_wad
        /\ ret' = RetPair(apply_mean_std(z, mean_wad, std_wad), <<>>, <<>>)
        /\ UNCHANGED <<table, num, den>>

NextSession ==
    \/ CallErf
    \/ CallErfc
    \/ CallPhi
    \/ SessionUniform
    \/ SessionApplyMeanStd

SpecSession == InitSession /\ [][NextSession]_vars

RECURSIVE ListsOver(_, _)
ListsOver(S, n) ==
    IF n = 0 THEN {<<>>}
    ELSE {Append(l, e) : l \in ListsOver(S, n - 1), e \in S}
RawMags == UNION {ListsOver(0..MaxCoef, n) : n \in 1..MaxLen}
RawSigns == UNION {ListsOver(BOOLEAN, n) : n \in 1..MaxLen}
DeclaredScales == {WAD, WAD + 1}

ErfData(p, q, scale, p_degree, q_degree) ==
    [p_magnitudes |-> p.mags, p_signs |-> p.signs,
     q_magnitudes |-> q.mags, q_signs |-> q.signs,
     scale |-> scale, domain |-> <<0, MinHi2>>,
     numerator_degree |-> p_degree, denominator_degree |-> q_degree]

\* FixedPointErf.__init__ on a bundle that exists: every field is stored as
\* read
load(erf_data, erfc_entry, phi_entry) ==
    [loaded |-> TRUE,
     p_mags |-> erf_data.p_magnitudes, p_signs |-> erf_data.p_signs,
     q_mags |-> erf_data.q_magnitudes, q_signs |-> erf_data.q_signs,
     scale |-> erf_data.scale, domain |-> erf_data.domain,
     erfc_data |-> erfc_entry, phi_data |-> phi_entry]

\* the bundle waiting to be loaded: num / den hold the arrays, x_in the
\* declared scale, a_in[1] / b_in[1] the declared degrees
PendingBundle == ErfData(num, den, x_in, a_in[1], b_in[1])

BundleConsistent ==
    /\ x_in = WAD
    /\ Len(num.mags) = Len(num.signs)
    /\ Len(den.mags) = Len(den.signs)
    /\ a_in[1] = Len(num.mags) - 1
    /\ b_in[1] = Len(den.mags) - 1

InitLoad ==
    /\ table = NoTable
    /\ op = "__init__"
    /\ ret = NoRet
    /\ num \in [mags : RawMags, signs : RawSigns]
    /\ den \in Polys
    /\ x_in \in DeclaredScales
    /\ a_in \in (0..(MaxLen - 1)) \X {FALSE}
    /\ b_in = <<Len(den.mags) - 1, FALSE>>

Construct ==
    /\ op = "__init__"
    /\ ret.kind = "none"
    /\ table' = load(PendingBundle, None, None)
    /\ ret' = [NoRet EXCEPT !.kind = "constructed"]
    /\ UNCHANGED <<op, x_in, a_in, b_in, num, den>>

SpecLoad == InitLoad /\ [][Construct]_vars

\* C21: loading a bundle whose declared scale differs from WAD, or whose
\* magnitude and sign arrays differ in length or disagree with the declared
\* degree, fails at load time and produces no usable evaluator.
C21_InconsistentBundleRejected ==
    (op = "__init__" /\ ret.kind # "none" /\ ~BundleConsistent) =>
        (ret.kind = "raise" /\ table = NoTable)

\* ------------------------------------------------- overflow analysis (u256)
\* verification/overflow_analysis.py runs on 10^18-scale integers, beyond the
\* integers of the model.  Every quantity n is therefore tracked by an upper
\* bound on its bit length, the least b with n < 2^b:
\*     bits(a * b) <= bits(a) + bits(b)        (0 if either factor is 0)
\*     bits(a + b) <= max(bits(a), bits(b)) + 1
\*     bits(a // SCALE) <= bits(a) - 59        since 2^59 <= SCALE = 10^18
\* so a bound of at most 256 proves the value is at most 2^256 - 1.
U256Bits == 256
ScaleFloorLog2 == 59
ScaleBits == 60
MaxZBits == 63
\* bit lengths of the thirteen CDF_NUM and CDF_DEN magnitudes, p0 / q0 first
CDF_NUM_bits == <<59, 58, 52, 54, 54, 49, 47, 48, 44, 43, 42, 38, 36>>
CDF_DEN_bits == <<60, 59, 59, 57, 56, 53, 52, 49, 47, 44, 42, 39, 36>>

mul_bits(a, b) == IF a = 0 \/ b = 0 THEN 0 ELSE a + b
add_bits(a, b) == Max(a, b) + 1
keep_bits(a) == a
div_scale_bits(a) == Max(0, a - ScaleFloorLog2)

\* simulate_horner on bit lengths: acc = 0, then for i from the last
\* coefficient down, product, scaled_acc and the new acc are recorded
RECURSIVE simulate_horner_bits(_, _, _, _, _)
simulate_horner_bits(coeffs, z, i, acc, intermediates) ==
    IF i < 1 THEN <<acc, intermediates>>
    ELSE LET product == mul_bits(acc, z)
             scaled_acc == div_scale_bits(product)
             new_acc == add_bits(scaled_acc, coeffs[i])
         IN simulate_horner_bits(coeffs, z, i - 1, new_acc,
                intermediates \o <<product, scaled_acc, new_acc>>)

\* analyze_overflow for one table and one z: the intermediates plus the
\* final product result * SCALE
analyze_overflow(coeffs, z) ==
    LET run == simulate_horner_bits(coeffs, z, Len(coeffs), 0, <<>>)
    IN [NoRet EXCEPT !.kind = "bits", !.int = mul_bits(run[1], ScaleBits),
                     !.hx = run[2], !.via = "analyze_overflow"]

InitOverflow ==
    /\ table = NoTable
    /\ op = "analyze_overflow"
    /\ ret = NoRet
    /\ num \in {[mags |-> CDF_NUM_bits, signs |-> <<>>], [mags |-> CDF_DEN_bits, signs |-> <<>>]}
    /\ den = NoPoly
    /\ x_in \in 0..MaxZBits
    /\ a_in = NoPair
    /\ b_in = NoPair

RunOverflow ==
    /\ op = "analyze_overflow"
    /\ ret.kind = "none"
    /\ ret' = analyze_overflow(num.mags, x_in)
    /\ UNCHANGED <<table, op, x_in, a_in, b_in, num, den>>

SpecOverflow == InitOverflow /\ [][RunOverflow]_vars

\* C22: with the CDF numerator and denominator tables and every z in
\* [0, 6 * SCALE], each product acc * z, each accumulator after the
\* coefficient is added and the final product P(z) * SCALE is at most
\* 2^256 - 1.
C22_FitsU256 ==
    (op = "analyze_overflow" /\ ret.kind # "none") =>
        /\ \A k \in 1..Len(ret.hx) : ret.hx[k] <= U256Bits
        /\ ret.int <= U256Bits

\* the worst case z = MAX_Z over all thirteen steps, some bound beyond 64 bits
C22_Witness ==
    /\ op = "analyze_overflow"
    /\ x_in = MaxZBits
    /\ ret.kind = "bits"
    /\ Len(ret.hx) = 3 * Len(num.mags)
    /\ \E k \in 1..Len(ret.hx) : ret.hx[k] > 64

\* ------------------------------------------------ test-vector checksums
\* FNV-1a of utils.py and of the generated Move modules.  Xor, and the
\* product modulo 2^128, decide the low bits of the result from the low bits
\* of the operands alone, so the model computes the low HashBits bits of the
\* real 128-bit checksums from the low bits of the two FNV constants.
FNV_OFFSET_BASIS_LOW == 50573
FNV_PRIME_LOW == 315
MOD_HASH == 2^HashBits

fnv_update(acc, v) == (xor(acc % MOD_HASH, v % MOD_HASH) * (FNV_PRIME_LOW % MOD_HASH)) % MOD_HASH

\* utils.fnv_checksum_ints: one update per value
RECURSIVE fnv_fold(_, _, _)
fnv_fold(acc, values, i) ==
    IF i > Len(values) THEN acc
    ELSE fnv_fold(fnv_update(acc, values[i]), values, i + 1)

fnv_checksum_ints(values) == fnv_fold(FNV_OFFSET_BASIS_LOW % MOD_HASH, values, 1)

\* "ppf_flat.extend([mag, int(neg)])"
RECURSIVE flatten(_, _, _)
flatten(mags, negs, i) ==
    IF i > Len(mags) THEN <<>>
    ELSE <<mags[i], IF negs[i] THEN 1 ELSE 0>> \o flatten(mags, negs, i + 1)

\* the emitted Move functions checksum_probs / checksum_seeds: the loop over
\* the vector, then one more update with the vector length
move_checksum_values(values) ==
    fnv_update(fnv_fold(FNV_OFFSET_BASIS_LOW % MOD_HASH, values, 1), Len(values)) % MOD_HASH

\* the emitted Move functions checksum_ppf_vectors / checksum_signed_vectors
move_checksum_signed(mags, negs) ==
    fnv_update(fnv_fold(FNV_OFFSET_BASIS_LOW % MOD_HASH, flatten(mags, negs, 1), 1),
               Len(mags)) % MOD_HASH

ValueVectors == UNION {ListsOver(0..MaxVal, n) : n \in 1..MaxVec}
SignVectors(n) == ListsOver(BOOLEAN, n)

\* a generated module: the vector is in num, ret.int is going to hold the
\* emitted checksum literal and ret.pair[1] what the Move function computes
InitVectors ==
    /\ table = NoTable
    /\ ret = NoRet
    /\ x_in = 0
    /\ a_in = NoPair
    /\ b_in = NoPair
    /\ den = NoPoly
    /\ \/ /\ op \in {"PROB_CHECKSUM", "SEED_CHECKSUM"}
          /\ num \in [mags : ValueVectors, signs : {<<>>}]
       \/ /\ op \in {"PPF_CHECKSUM", "Z_CHECKSUM", "N_CHECKSUM"}
          /\ \E v \in ValueVectors : num \in [mags : {v}, signs : SignVectors(Len(v))]

Emitted(literal, computed) ==
    /\ ret.kind = "none"
    /\ ret' = [NoRet EXCEPT !.kind = "checksum", !.int = literal, !.pair = <<computed, FALSE>>]
    /\ UNCHANGED <<table, op, x_in, a_in, b_in, num, den>>

EmitValueChecksum ==
    /\ op \in {"PROB_CHECKSUM", "SEED_CHECKSUM"}
    /\ Emitted(fnv_checksum_ints(num.mags), move_checksum_values(num.mags))

EmitSignedChecksum ==
    /\ op \in {"PPF_CHECKSUM", "Z_CHECKSUM", "N_CHECKSUM"}
    /\ Emitted(fnv_checksum_ints(flatten(num.mags, num.signs, 1)),
               move_checksum_signed(num.mags, num.signs))

NextVectors == EmitValueChecksum \/ EmitSignedChecksum

SpecVectors == InitVectors /\ [][NextVectors]_vars

\* C23: each checksum constant written into a generated Move module equals
\* the value the generated Move checksum function computes over the emitted
\* vector, so the test_vector_checksums assertions hold.
C23_ChecksumsAgree ==
    (ret.kind = "checksum") => (ret.int = ret.pair[1])

\* ------------------------------------------------- exactness of Horner
\* WAD^(n-1) times the exact polynomial sum of c[i] * (x / WAD)^i, for the
\* coefficients i..n of an n-term list (positions are 1-based here)
RECURSIVE Pow(_, _)
Pow(b, e) == IF e = 0 THEN 1 ELSE b * Pow(b, e - 1)

RECURSIVE ExactScaled(_, _, _, _)
ExactScaled(x, magnitudes, signs, i) ==
    IF i > Len(magnitudes) THEN 0
    ELSE value(<<magnitudes[i], signs[i]>>) * Pow(x, i - 1) * Pow(WAD, Len(magnitudes) - i)
         + ExactScaled(x, magnitudes, signs, i + 1)

\* WAD^(n-1) times the largest error n - 1 floor divisions can add up to: the
\* division of step j loses less than one unit, scaled by x / WAD in each of
\* the steps that follow it
RECURSIVE RoundingBudget(_, _, _)
RoundingBudget(x, n, j) ==
    IF j > n - 2 THEN 0
    ELSE Pow(x, j) * Pow(WAD, n - 1 - j) + RoundingBudget(x, n, j + 1)

Abs(n) == IF n < 0 THEN 0 - n ELSE n

\* C25: horner_eval_signed is exact wherever no division rounds: for
\* x = k * WAD the returned signed value is the exact sum of c[i] * k^i; for
\* any other x it differs from the exact value by less than what the one
\* floor division of each of the len(coeffs) - 1 steps can lose.
C25_HornerExactUpToFloor ==
    HornerDone =>
        LET n == Len(num.mags)
            diff == value(ret.pair) * Pow(WAD, n - 1) - ExactScaled(x_in, num.mags, num.signs, 1)
        IN /\ (x_in % WAD = 0 \/ n = 1) => diff = 0
           /\ (x_in % WAD # 0 /\ n > 1) => Abs(diff) < RoundingBudget(x_in, n, 0)

\* an exact evaluation at x = 2 * WAD of a list with a non-zero top coefficient
C25_Witness ==
    /\ HornerDone
    /\ x_in = 2 * WAD
    /\ Len(num.mags) > 1
    /\ num.mags[Len(num.mags)] # 0
    /\ value(ret.pair) = value(<<num.mags[1], num.signs[1]>>)
                         + 2 * value(<<num.mags[2], num.signs[2]>>)

\* C26: when the numerator evaluates to magnitude 0 (and the denominator is
\* non-zero) rational_eval_signed returns canonical zero (0, False) whatever
\* the sign of the denominator; in general its result has sign False
\* whenever its magnitude is 0.
C26_RationalCanonicalZero ==
    (RationalDone /\ ret.kind = "pair") => canonical(ret.pair)

\* --------------------------------- unsigned simulation of the Horner loop
\* one iteration of simulate_horner: product, scaled_acc, acc
sim_step_drops_coeff(acc, z, c) == (acc * z) \div WAD

sim_step(acc, z, c) == ((acc * z) \div WAD) + c

\* overflow_analysis.simulate_horner in exact arithmetic: acc = 0, then one
\* iteration per coefficient from the last one down; after_add collects acc
RECURSIVE simulate_loop(_, _, _, _, _)
simulate_loop(coeffs, z, i, acc, after_add) ==
    IF i < 1 THEN [acc |-> acc, after_add |-> after_add]
    ELSE LET new_acc == sim_step(acc, z, coeffs[i])
         IN simulate_loop(coeffs, z, i - 1, new_acc, Append(after_add, new_acc))

simulate_horner(coeffs, z) == simulate_loop(coeffs, z, Len(coeffs), 0, <<>>)

\* the loop of check_overflow_potential: result = mags[-1], then the lower
\* coefficients
RECURSIVE overflow_potential_loop(_, _, _, _)
overflow_potential_loop(mags, max_x_wad, i, result) ==
    IF i < 1 THEN result
    ELSE overflow_potential_loop(mags, max_x_wad, i - 1,
            ((result * max_x_wad) \div WAD) + mags[i])

check_overflow_potential(mags, max_x_wad) ==
    overflow_potential_loop(mags, max_x_wad, Len(mags) - 1, mags[Len(mags)])

\* C27: at every Horner step the accumulator magnitude of horner_eval_signed
\* is at most the accumulator of simulate_horner run on the magnitudes alone;
\* with all signs False the two final results are equal; and simulate_horner
\* from acc = 0 agrees with the loop that starts from the highest coefficient.
C27_UnsignedSimulationBounds ==
    HornerDone =>
        LET sim == simulate_horner(num.mags, x_in)
        IN /\ Len(ret.accs) = Len(sim.after_add)
           /\ \A k \in 1..Len(ret.accs) : ret.accs[k][1] <= sim.after_add[k]
           /\ (\A i \in 1..Len(num.signs) : num.signs[i] = FALSE) =>
                 (ret.pair[1] = sim.acc /\ ret.pair[2] = FALSE)
           /\ sim.acc = check_overflow_potential(num.mags, x_in)

\* a mixed-sign list on which the signed accumulator ends strictly below the
\* unsigned one
C27_Witness ==
    /\ HornerDone
    /\ Len(num.mags) > 1
    /\ x_in > 0
    /\ \E i \in 1..Len(num.signs) : num.signs[i] = TRUE
    /\ ret.pair[1] < simulate_horner(num.mags, x_in).acc

\* ------------------------------------------- scaling coefficients to WAD
\* Decimal.to_integral_value() under the default context: round half to even
round_half_even_abs(n) ==
    LET q == n \div SubUnits
        r == n % SubUnits
    IN IF 2 * r < SubUnits THEN q
       ELSE IF 2 * r > SubUnits THEN q + 1
       ELSE IF q % 2 = 0 THEN q ELSE q + 1

\* scale_coefficient: int((Decimal(c) * Decimal(WAD)).to_integral_value())
scale_coefficient(n) ==
    IF n < 0 THEN 0 - round_half_even_abs(0 - n) ELSE round_half_even_abs(n)

\* 03_scale_fixed_point.scale_and_split: sign taken from the scaled integer
RECURSIVE scale_and_split(_, _)
scale_and_split(coeffs, i) ==
    IF i > Len(coeffs) THEN <<>>
    ELSE LET scaled == scale_coefficient(coeffs[i])
         IN << <<Abs(scaled), scaled < 0>> >> \o scale_and_split(coeffs, i + 1)

\* 02b_extract_ppf_coefficients.to_wad: sign taken from the float, magnitude
\* rounded afterwards
RECURSIVE to_wad(_, _)
to_wad(coeffs, i) ==
    IF i > Len(coeffs) THEN <<>>
    ELSE LET neg == coeffs[i] < 0
             mag_int == round_half_even_abs(Abs(coeffs[i]))
         IN << <<mag_int, neg>> >> \o to_wad(coeffs, i + 1)

FloatLists == UNION {ListsOver((0 - MaxFine)..MaxFine, n) : n \in 1..MaxVec}

InitScale ==
    /\ table = NoTable
    /\ ret = NoRet
    /\ op \in {"scale_and_split", "to_wad"}
    /\ num \in [mags : FloatLists, signs : {<<>>}]
    /\ den = NoPoly
    /\ x_in = 0
    /\ a_in = NoPair
    /\ b_in = NoPair

Split(pairs) ==
    /\ ret.kind = "none"
    /\ ret' = [NoRet EXCEPT !.kind = "split", !.accs = pairs]
    /\ UNCHANGED <<table, op, x_in, a_in, b_in, num, den>>

CallScaleAndSplit == op = "scale_and_split" /\ Split(scale_and_split(num.mags, 1))
CallToWad == op = "to_wad" /\ Split(to_wad(num.mags, 1))

NextScale == CallScaleAndSplit \/ CallToWad

SpecScale == InitScale /\ [][NextScale]_vars

\* C28: every (magnitude, sign) pair written to a coefficient table is
\* canonical: for every input coefficient, also a negative one that rounds
\* to 0, scale_and_split and to_wad emit sign False whenever the magnitude
\* is 0, and sign * magnitude equals the rounded scaled coefficient.
C28_EmittedPairsCanonical ==
    (ret.kind = "split") =>
        /\ Len(ret.accs) = Len(num.mags)
        /\ \A k \in 1..Len(ret.accs) :
              /\ canonical(ret.accs[k])
              /\ value(ret.accs[k]) = scale_coefficient(num.mags[k])

\* ------------------------------------------------------------ run_all.py
\* The file holds two scripts one after the other, each ending in
\* "if __name__ == '__main__': main()": running it executes the first main
\* and, if that returns, the second.
FIRST_PIPELINE ==
    <<"02_extract_coefficients.py", "03_scale_fixed_point.py",
      "02b_extract_ppf_coefficients.py", "07_export_for_move_gaussian.py",
      "10_cross_language_vectors.py">>
CORE_STEPS ==
    <<"01_aaa_exploration.py", "02_extract_coefficients.py", "03_scale_fixed_point.py",
      "04_horner_python.py", "05_test_harness.py", "07_export_for_move.py">>
PPF_STEP == "01b_aaa_ppf.py"
PRECISION_STEP == "05b_test_precision_limits.py"
\* the entries of CORE_STEPS for which script.startswith("01_") holds
StartsWith01 == {"01_aaa_exploration.py"}

\* "Build step list": the loop over CORE_STEPS from entry i on
RECURSIVE build_steps(_, _, _, _)
build_steps(skip_aaa, include_ppf, precision_check, i) ==
    IF i > Len(CORE_STEPS) THEN <<>>
    ELSE LET script == CORE_STEPS[i]
             rest == build_steps(skip_aaa, include_ppf, precision_check, i + 1)
         IN IF skip_aaa /\ script \in StartsWith01 THEN rest
            ELSE <<script>>
                 \o (IF script = "01_aaa_exploration.py" /\ include_ppf
                     THEN <<PPF_STEP>> ELSE <<>>)
                 \o (IF script = "05_test_harness.py" /\ precision_check
                     THEN <<PRECISION_STEP>> ELSE <<>>)
                 \o rest

\* The runner's state in the shared variables:
\*   den.signs  <<skip_aaa, include_ppf, precision_check>> (sys.argv)
\*   num.mags   steps, the list the second main builds
\*   ret.hx     the scripts started so far, both pipelines, in order
\*   ret.accs   for each of them whether it succeeded
\*   ret.kind   "running" or "exit"; ret.int the exit code
\*   ret.via    "ppf_listed" when the summary names outputs/ppf_aaa_results.json
skip_aaa == den.signs[1]
include_ppf == den.signs[2]
precision_check == den.signs[3]
steps == num.mags
started == ret.hx
succeeded == ret.accs
NumFirst == Len(FIRST_PIPELINE)

InitRunner ==
    /\ table = NoTable
    /\ op = "run_all"
    /\ x_in = 0
    /\ a_in = NoPair
    /\ b_in = NoPair
    /\ den \in [mags : {<<>>}, signs : ListsOver(BOOLEAN, 3)]
    /\ num = [mags |-> build_steps(den.signs[1], den.signs[2], den.signs[3], 1), signs |-> <<>>]
    /\ ret = [NoRet EXCEPT !.kind = "running"]

\* sys.exit(code) without a summary
exit_stops_late(code, script, ok) ==
    [ret EXCEPT !.kind = IF Len(started) + 1 < NumFirst + Len(steps) THEN "running" ELSE "exit",
                !.int = code, !.hx = Append(started, script),
                !.accs = Append(succeeded, ok)]

exit_after(code, script, ok) ==
    [ret EXCEPT !.kind = "exit", !.int = code, !.hx = Append(started, script),
                !.accs = Append(succeeded, ok)]

continue_after(script) ==
    [ret EXCEPT !.hx = Append(started, script), !.accs = Append(succeeded, TRUE)]

\* the summary of the second main when all_passed holds
summary_passed(script) ==
    [ret EXCEPT !.kind = "exit", !.int = 0, !.hx = Append(started, script),
                !.accs = Append(succeeded, TRUE),
                !.via = IF include_ppf THEN "ppf_listed" ELSE ""]

\* first main: run(cmd, cwd) for the next command; a missing script makes
\* python3 itself return a non-zero code
RunFirst ==
    /\ op = "run_all"
    /\ ret.kind = "running"
    /\ Len(started) < NumFirst
    /\ \E returncode \in 0..2 :
          LET script == FIRST_PIPELINE[Len(started) + 1]
          IN ret' = IF returncode # 0 THEN exit_after(returncode, script, FALSE)
                    ELSE continue_after(script)
    /\ UNCHANGED <<table, op, x_in, a_in, b_in, num, den>>

\* second main: run_step for the next entry of steps, then, after a failure
\* or after the last entry, the summary
RunSecond ==
    /\ op = "run_all"
    /\ ret.kind = "running"
    /\ Len(started) >= NumFirst
    /\ Len(started) < NumFirst + Len(steps)
    /\ \E outcome \in {"completed", "failed", "not found"} :
          LET script == steps[Len(started) - NumFirst + 1]
              last == Len(started) + 1 = NumFirst + Len(steps)
          IN ret' = IF outcome # "completed" THEN exit_after(1, script, FALSE)
                    ELSE IF last THEN summary_passed(script)
                    ELSE continue_after(script)
    /\ UNCHANGED <<table, op, x_in, a_in, b_in, num, den>>

NextRunner == RunFirst \/ RunSecond

SpecRunner == InitRunner /\ [][NextRunner]_vars

\* the scripts the runner would start if none failed
Planned == FIRST_PIPELINE \o steps
IndexIn(seq, e) == CHOOSE k \in 1..Len(seq) : seq[k] = e
Occurs(seq, e) == \E k \in 1..Len(seq) : seq[k] = e

\* C29: the runner executes its steps strictly in the listed order and stops
\* at the first failure: after a failed (or missing) step no later step is
\* started and the runner exits non-zero; it exits 0 only if every step it
\* started succeeded.
C29_StopsAtFirstFailure ==
    (op = "run_all") =>
        /\ Len(started) <= Len(Planned)
        /\ \A k \in 1..Len(started) : started[k] = Planned[k]
        /\ \A k \in 1..(Len(started) - 1) : succeeded[k] = TRUE
        /\ (Len(started) > 0 /\ succeeded[Len(started)] = FALSE) =>
              (ret.kind = "exit" /\ ret.int # 0)
        /\ (ret.kind = "exit" /\ ret.int = 0) =>
              \A k \in 1..Len(started) : succeeded[k] = TRUE

\* a failure in the second pipeline after the whole first pipeline succeeded
C29_Witness ==
    /\ op = "run_all"
    /\ ret.kind = "exit"
    /\ ret.int # 0
    /\ Len(started) > NumFirst + 1
    /\ Len(started) < Len(Planned)
    /\ succeeded[Len(started)] = FALSE

\* C30: whenever --include-ppf is passed, 01b_aaa_ppf.py is among the steps
\* of the runner, before 02_extract_coefficients.py, whatever the other
\* options are; and the summary lists outputs/ppf_aaa_results.json as
\* generated only if that step ran.
C30_PpfStepIncluded ==
    (op = "run_all") =>
        /\ include_ppf =>
              /\ Occurs(steps, PPF_STEP)
              /\ IndexIn(steps, PPF_STEP) < IndexIn(steps, "02_extract_coefficients.py")
        /\ (ret.via = "ppf_listed") =>
              \E k \in 1..Len(started) : started[k] = PPF_STEP /\ succeeded[k]

====
